---- MODULE Spec2Model ----
(***************************************************************************)
(* Rampage preset store (scripts/python/rampage/rampage.py).               *)
(*                                                                         *)
(* State: the two preset files on disk, and per Houdini session the        *)
(* lru_cache of _read_preset_file, the ramp parameters of the scene, the   *)
(* temporary file of the save in progress and the position of the running  *)
(* callback.  A Python dict is a sequence of <<key, value>> items in        *)
(* insertion order; a string is a sequence of one-character strings.       *)
(***************************************************************************)
EXTENDS Integers, Sequences, FiniteSets, TLC

VARIABLES file, temp, cache, parm, pc, call, live, faults

vars == <<file, temp, cache, parm, pc, call, live, faults>>

----------------------------------------------------------------------------
(* Bounds and input sets *)

\* add inserts a preset while the store holds fewer presets than this
MaxPresets == 2

\* I/O errors and kills injected in one behaviour
MaxFaults == 1

\* sessions (host processes) that may exist; Spec runs the first one alone
MaxSessions == 2

\* keys of a ramp read from a store file that was not written by this program
MaxKeys == 2

\* characters of a name typed freely into the rename dialog
MaxLen == 2

AllSessions == 1..MaxSessions

\* RampType values, rampage.py:16-18
Kinds == {"float", "color"}

\* texts the user can type into hou.ui.readInput / the rename line edit
Names == { <<>>, <<"A">>, <<"a", "!">> }

\* name of the preset a store kept from an earlier session holds
SeedName == <<"b">>

\* parm.name() of the ramp parameter
ParmName == <<"r">>

----------------------------------------------------------------------------
(* Strings *)

\* str.lower on one character of the alphabet in use
LowerChar(c) == IF c = "A" THEN "a" ELSE IF c = "B" THEN "b" ELSE c

\* str.lower
Lower(s) == [i \in DOMAIN s |-> LowerChar(s[i])]

IsAlphaNumericChar(c) == c \in {"A", "B", "a", "b", "r", "0", "1"}

\* hou.text.alphaNumeric: keeps the alphanumeric characters of the string
alphaNumeric(s) == SelectSeq(s, IsAlphaNumericChar)

\* mutant: only the first character that is not alphanumeric is dropped
NormalizeDropsFirstOnly(name) ==
    LET l == Lower(name)
        bad == {i \in DOMAIN l : ~IsAlphaNumericChar(l[i])}
    IN  IF bad = {}
        THEN l
        ELSE LET m == CHOOSE i \in bad : \A j \in bad : i <= j
             IN  [i \in 1..(Len(l) - 1) |-> IF i < m THEN l[i] ELSE l[i + 1]]

\* preset_key = hou.text.alphaNumeric(name.lower())
Normalize(name) == alphaNumeric(Lower(name))

----------------------------------------------------------------------------
(* Ramps of the host: basis enums, key positions, values *)

FloatRamp1 == [basis |-> <<"Linear">>, keys |-> <<0>>, values |-> <<1>>]

FloatRamp2 ==
    [basis |-> <<"Linear", "Constant">>, keys |-> <<0, 1>>, values |-> <<0, 1>>]

ColorRamp1 == [basis |-> <<"Linear">>, keys |-> <<0>>, values |-> << <<1, 0, 0>> >>]

ColorRamp2 ==
    [basis |-> <<"Linear", "Constant">>, keys |-> <<0, 1>>,
     values |-> << <<0, 0, 0>>, <<1, 1, 1>> >>]

Ramp1(k) == IF k = "color" THEN ColorRamp1 ELSE FloatRamp1

Ramp2(k) == IF k = "color" THEN ColorRamp2 ELSE FloatRamp2

----------------------------------------------------------------------------
(* Python values: a dict of presets, or None *)

PyDict(items) == [none |-> FALSE, items |-> items]

PyNone == [none |-> TRUE, items |-> <<>>]

DictKeys(items) == {items[i].key : i \in DOMAIN items}

IndexOf(items, k) == CHOOSE i \in DOMAIN items : items[i].key = k

DictGet(items, k) == items[IndexOf(items, k)].val

\* d[k] = v: an existing key keeps its position, a new key goes last
DictSet(items, k, v) ==
    IF k \in DictKeys(items)
    THEN [items EXCEPT ![IndexOf(items, k)] = [key |-> k, val |-> v]]
    ELSE Append(items, [key |-> k, val |-> v])

\* del d[k] / d.pop(k)
DictDel(items, k) ==
    LET i == IndexOf(items, k)
    IN  [j \in 1..(Len(items) - 1) |-> IF j < i THEN items[j] ELSE items[j + 1]]

----------------------------------------------------------------------------
(* RampPreset: the preset dict is the record written by to_dict.  seqs     *)
(* tells whether basis, keys and values are Python tuples (as the host     *)
(* hands them out) or lists (as json.load builds them).                    *)

\* RampPreset.__init__: the length test builds a ValueError and drops it,
\* so every argument is accepted
RampPresetInit(name, ramp_type, basis, keys, values, seqs) ==
    [name |-> name, ramp_type |-> ramp_type, keys |-> keys, values |-> values,
     basis |-> basis, seqs |-> seqs]

\* mutant: key positions and values change places
FromRampSwapped(ramp, k, name) ==
    RampPresetInit(name, k, ramp.basis, ramp.values, ramp.keys, "tuple")

\* RampPreset.from_ramp: the ramp of a parameter of kind k is a color ramp
\* exactly when k is "color"; basis, keys() and values() are tuples
FromRamp(ramp, k, name) ==
    RampPresetInit(name, k, ramp.basis, ramp.keys, ramp.values, "tuple")

\* RampPreset.from_parm: an empty name is replaced by the parameter's name
FromParm(ramp, k, name) ==
    FromRamp(ramp, k, IF name = <<>> THEN ParmName ELSE name)

\* RampPreset.to_dict
ToDict(preset) == preset

\* mutant: the ramp is built without its last key
ToRampDropsLastKey(preset_dict) ==
    [basis |-> SubSeq(preset_dict.basis, 1, Len(preset_dict.basis) - 1),
     keys |-> SubSeq(preset_dict.keys, 1, Len(preset_dict.keys) - 1),
     values |-> SubSeq(preset_dict.values, 1, Len(preset_dict.values) - 1)]

\* RampPreset.from_dict followed by to_ramp: the hou.Ramp that is set
ToRamp(preset_dict) ==
    [basis |-> preset_dict.basis, keys |-> preset_dict.keys,
     values |-> preset_dict.values]

----------------------------------------------------------------------------
(* Files.  st is "absent", "empty" (created, nothing written), "partial"   *)
(* (a prefix of the JSON text), "object" (a complete JSON object) or       *)
(* "null".  JSON arrays carry seqs = "array".                              *)

Absent == [st |-> "absent", items |-> <<>>]

EmptyFile == [st |-> "empty", items |-> <<>>]

JsonItem(e, seqs) == [key |-> e.key, val |-> [e.val EXCEPT !.seqs = seqs]]

\* json.dump(presets_data, file, indent=4), the complete text
JsonDump(v) ==
    IF v.none
    THEN [st |-> "null", items |-> <<>>]
    ELSE [st |-> "object",
          items |-> [i \in DOMAIN v.items |-> JsonItem(v.items[i], "array")]]

\* the text after the first n items have reached the file
JsonDumpPrefix(v, n) ==
    [st |-> "partial",
     items |-> [i \in 1..n |-> JsonItem(v.items[i], "array")]]

\* json.load of a complete text
JsonLoad(f) ==
    IF f.st = "null"
    THEN PyNone
    ELSE PyDict([i \in DOMAIN f.items |-> JsonItem(f.items[i], "list")])

----------------------------------------------------------------------------
(* _read_preset_file under functools.lru_cache, keyed by the file path     *)

Uncached == [cached |-> FALSE, val |-> PyNone]

\* the cache after _read_preset_file(path of k) returned val; the caller
\* mutates the returned dict in place, so val is also what the cache holds
\* after the caller's mutation
Cached(s, k, val) ==
    [cache EXCEPT ![s][k] = [cached |-> TRUE, val |-> val]]

\* open(filepath) or json.load raises; nothing is cached
ReadRaises(s, k) ==
    /\ ~cache[s][k].cached
    /\ file[k].st \notin {"object", "null"}

ReadError(k) ==
    IF file[k].st = "absent" THEN "FileNotFoundError" ELSE "JSONDecodeError"

\* the value _read_preset_file returns
ReadPresetFile(s, k) ==
    IF cache[s][k].cached THEN cache[s][k].val ELSE JsonLoad(file[k])

----------------------------------------------------------------------------
(* The running callback: its arguments and locals, the mapping it loaded   *)
(* (pre), the file as it was when the callback began (file0), the value     *)
(* handed to _safe_save_preset_file (data), the list it returned (items)   *)
(* and how it ended (result).                                              *)

NoCall ==
    [op |-> "none", kind |-> "float", name |-> <<>>, key |-> <<>>, sel |-> 0,
     pre |-> PyNone, file0 |-> Absent, data |-> PyNone, items |-> <<>>,
     result |-> "none"]

NewCall(op, k, name, key, sel) ==
    [op |-> op, kind |-> k, name |-> name, key |-> key, sel |-> sel,
     pre |-> PyNone, file0 |-> file[k], data |-> PyNone, items |-> <<>>,
     result |-> "running"]

\* the callback returns or raises
Returns(s, c, res) ==
    /\ call' = [call EXCEPT ![s] = [c EXCEPT !.result = res]]
    /\ pc' = [pc EXCEPT ![s] = "idle"]

\* the callback enters _safe_save_preset_file(preset_file_path, data) and
\* open(temp_preset_file_path, "w") creates the temporary file, empty
EnterSafeSave(s, c, data) ==
    /\ call' = [call EXCEPT ![s] = [c EXCEPT !.data = data]]
    /\ temp' = [temp EXCEPT ![s] = EmptyFile]
    /\ pc' = [pc EXCEPT ![s] = "write"]

\* the callback ends before it reaches _safe_save_preset_file
Ends(s, c, res) == Returns(s, c, res) /\ UNCHANGED temp

----------------------------------------------------------------------------
\* the store an earlier session left after add(SeedName) on the ramp Ramp2(k)
SeedStore(k) ==
    JsonDump(PyDict(DictSet(<<>>, Normalize(SeedName),
                            ToDict(FromParm(Ramp2(k), k, SeedName)))))

\* one session; its scene holds one ramp parameter, a float ramp or a color
\* ramp; the presets directory is missing, or holds both stores, empty or
\* as an earlier session left them
Init ==
    /\ live = {1}
    /\ file \in {[k \in Kinds |-> Absent],
                 [k \in Kinds |-> JsonDump(PyDict(<<>>))],
                 [k \in Kinds |-> SeedStore(k)]}
    /\ temp = [s \in AllSessions |-> Absent]
    /\ cache = [s \in AllSessions |-> [k \in Kinds |-> Uncached]]
    /\ parm \in {[s \in AllSessions |-> [k \in {kk} |-> Ramp1(k)]] : kk \in Kinds}
    /\ pc = [s \in AllSessions |-> "idle"]
    /\ call = [s \in AllSessions |-> NoCall]
    /\ faults = 0

\* the rows a selection list or combo box shows for the loaded value
Rows(s, k) ==
    IF ReadRaises(s, k) \/ ReadPresetFile(s, k).none
    THEN 0
    ELSE Len(ReadPresetFile(s, k).items)

----------------------------------------------------------------------------
(* add *)

\* mutant: the name as typed is looked up, not its key
NameExistsRaw(name, presets_data) == name \in DictKeys(presets_data)

\* preset_key = hou.text.alphaNumeric(name.lower()); preset_key in presets_data
NameExists(name, presets_data) == Normalize(name) \in DictKeys(presets_data)

\* _add_ramp_preset_to_presets_file(parm, name), up to the call of
\* _safe_save_preset_file
AddRampPresetToPresetsFile(s, k, name, c0) ==
    LET preset == FromParm(parm[s][k], k, name)
        preset_key == Normalize(name)
    IN  IF ReadRaises(s, k)
        THEN Ends(s, c0, ReadError(k)) /\ UNCHANGED cache
        ELSE LET presets_data == ReadPresetFile(s, k)
                 c1 == [c0 EXCEPT !.pre = presets_data]
             IN  IF presets_data.none
                 THEN /\ Ends(s, c1, "TypeError")
                      /\ cache' = Cached(s, k, presets_data)
                 ELSE IF NameExists(name, presets_data.items)
                 THEN /\ Ends(s, c1, "DuplicateName")
                      /\ cache' = Cached(s, k, presets_data)
                 ELSE LET d == PyDict(DictSet(presets_data.items, preset_key,
                                              ToDict(preset)))
                      IN  /\ EnterSafeSave(s, c1, d)
                          /\ cache' = Cached(s, k, d)

\* add_ramp_preset_menu_callback: hou.ui.readInput returns (choice, name)
AddRampPresetMenuCallback(s, k, choice, name) ==
    /\ pc[s] = "idle"
    /\ \/ choice = -1
       \/ Rows(s, k) < MaxPresets
       \/ /\ Rows(s, k) > 0
          /\ Normalize(name) \in DictKeys(ReadPresetFile(s, k).items)
    /\ IF choice = -1
       THEN Ends(s, NewCall("add", k, <<>>, <<>>, 0), "cancel")
            /\ UNCHANGED cache
       ELSE AddRampPresetToPresetsFile(s, k, name,
                NewCall("add", k, name, Normalize(name), 0))
    /\ UNCHANGED <<file, parm, live, faults>>

----------------------------------------------------------------------------
(* replace, remove *)

NoChoice == [none |-> TRUE, key |-> <<>>]

\* _user_choice_selection_from_preset_list: hou.ui.selectFromList returns
\* the chosen row (sel, counted from 1) or nothing (sel = 0)
UserChoiceSelectionFromPresetList(preset_data, sel) ==
    IF sel = 0 THEN NoChoice ELSE [none |-> FALSE, key |-> preset_data[sel].key]

\* "if not key": None and the empty string are both falsy
IsFalsyKey(choice) == choice.none \/ choice.key = <<>>

\* replace_preset
ReplacePreset(s, k, sel) ==
    /\ pc[s] = "idle"
    /\ sel \in 0..Rows(s, k)
    /\ LET c0 == NewCall("replace", k, <<>>, <<>>, sel)
       IN  IF ReadRaises(s, k)
           THEN Ends(s, c0, ReadError(k)) /\ UNCHANGED cache
           ELSE LET preset_dict == ReadPresetFile(s, k)
                    c1 == [c0 EXCEPT !.pre = preset_dict]
                IN  IF preset_dict.none
                    THEN /\ Ends(s, c1, "AttributeError")
                         /\ cache' = Cached(s, k, preset_dict)
                    ELSE LET choice == UserChoiceSelectionFromPresetList(
                                           preset_dict.items, sel)
                             c2 == [c1 EXCEPT !.key = choice.key]
                         IN  IF IsFalsyKey(choice)
                             THEN /\ Ends(s, c2, "return")
                                  /\ cache' = Cached(s, k, preset_dict)
                             ELSE LET preset ==
                                          FromParm(parm[s][k], k,
                                              DictGet(preset_dict.items,
                                                      choice.key).name)
                                      d == PyDict(DictSet(preset_dict.items,
                                               choice.key, ToDict(preset)))
                                  IN  /\ EnterSafeSave(s, c2, d)
                                      /\ cache' = Cached(s, k, d)
    /\ UNCHANGED <<file, parm, live, faults>>

\* remove_preset
RemovePreset(s, k, sel) ==
    /\ pc[s] = "idle"
    /\ sel \in 0..Rows(s, k)
    /\ LET c0 == NewCall("remove", k, <<>>, <<>>, sel)
       IN  IF ReadRaises(s, k)
           THEN Ends(s, c0, ReadError(k)) /\ UNCHANGED cache
           ELSE LET preset_dict == ReadPresetFile(s, k)
                    c1 == [c0 EXCEPT !.pre = preset_dict]
                IN  IF preset_dict.none
                    THEN /\ Ends(s, c1, "AttributeError")
                         /\ cache' = Cached(s, k, preset_dict)
                    ELSE LET choice == UserChoiceSelectionFromPresetList(
                                           preset_dict.items, sel)
                             c2 == [c1 EXCEPT !.key = choice.key]
                         IN  IF IsFalsyKey(choice)
                             THEN /\ Ends(s, c2, "return")
                                  /\ cache' = Cached(s, k, preset_dict)
                             ELSE LET d == PyDict(DictDel(preset_dict.items,
                                                          choice.key))
                                  IN  /\ EnterSafeSave(s, c2, d)
                                      /\ cache' = Cached(s, k, d)
    /\ UNCHANGED <<file, parm, live, faults>>

----------------------------------------------------------------------------
(* rename *)

\* what indexing the value of QDialog.exec_() with [1] does in
\* dialog.show_rename_dialog: the value is not subscriptable (TypeError),
\* or its item 1 is false (dialog rejected) or true (dialog accepted)
ExecResults == {"raises", "false", "true"}

\* RenameDialog.result, first component: QComboBox.currentData() is the key
\* of the current row, None for an empty combo box
CurrentData(preset_data, idx) ==
    IF idx = 0 THEN NoChoice ELSE [none |-> FALSE, key |-> preset_data[idx].key]

\* mutant: the old entry is read with [] and stays in the dict
RenameRampPresetNoPop(old_name, new_name, preset_dict) ==
    IF old_name.none \/ old_name.key \notin DictKeys(preset_dict)
    THEN PyNone
    ELSE LET preset == [DictGet(preset_dict, old_name.key)
                            EXCEPT !.name = new_name]
         IN  PyDict(DictSet(preset_dict, Normalize(new_name), preset))

\* mutant: a new key held by another preset is refused like a missing old one
RenameRampPresetGuarded(old_name, new_name, preset_dict) ==
    IF \/ old_name.none
       \/ old_name.key \notin DictKeys(preset_dict)
       \/ /\ Normalize(new_name) \in DictKeys(preset_dict)
          /\ Normalize(new_name) # old_name.key
    THEN PyNone
    ELSE LET preset == [DictGet(preset_dict, old_name.key)
                            EXCEPT !.name = new_name]
         IN  PyDict(DictSet(DictDel(preset_dict, old_name.key),
                            Normalize(new_name), preset))

\* rename_ramp_preset(old_name, new_name, preset_dict)
RenameRampPreset(old_name, new_name, preset_dict) ==
    IF old_name.none \/ old_name.key \notin DictKeys(preset_dict)
    THEN PyNone
    ELSE LET preset == [DictGet(preset_dict, old_name.key)
                            EXCEPT !.name = new_name]
             key_name == Normalize(new_name)
         IN  PyDict(DictSet(DictDel(preset_dict, old_name.key), key_name, preset))

\* rename_preset_menu_callback; a non-empty combo box always has a current
\* row (idx >= 1), an empty one has none (idx = 0)
RenamePresetMenuCallback(s, k, exec, idx, new_menu_name) ==
    /\ pc[s] = "idle"
    /\ idx \in (IF Rows(s, k) = 0 THEN {0} ELSE 1..Rows(s, k))
    /\ LET c0 == NewCall("rename", k, <<>>, <<>>, 0)
       IN  IF ReadRaises(s, k)
           THEN Ends(s, c0, ReadError(k)) /\ UNCHANGED cache
           ELSE LET preset_dict == ReadPresetFile(s, k)
                    c1 == [c0 EXCEPT !.pre = preset_dict]
                IN  IF preset_dict.none
                    THEN /\ Ends(s, c1, "TypeError")
                         /\ cache' = Cached(s, k, preset_dict)
                    ELSE IF exec = "raises"
                    THEN /\ Ends(s, c1, "TypeError")
                         /\ cache' = Cached(s, k, preset_dict)
                    ELSE IF exec = "false"
                    THEN /\ Ends(s, c1, "cancel")
                         /\ cache' = Cached(s, k, preset_dict)
                    ELSE LET old_menu_name == CurrentData(preset_dict.items, idx)
                             c2 == [c1 EXCEPT !.key = old_menu_name.key,
                                              !.name = new_menu_name,
                                              !.sel = idx]
                             new_preset_dict ==
                                 RenameRampPreset(old_menu_name, new_menu_name,
                                                  preset_dict.items)
                         IN  /\ EnterSafeSave(s, c2, new_preset_dict)
                             /\ cache' = Cached(s, k,
                                    IF new_preset_dict.none
                                    THEN preset_dict ELSE new_preset_dict)
    /\ UNCHANGED <<file, parm, live, faults>>

----------------------------------------------------------------------------
(* apply *)

\* menu tokens the host can hand over in kwargs["selectedtoken"]
Tokens == {Normalize(n) : n \in Names \cup {SeedName}}

\* hou.Ramp(ramp_basis, self.keys, self.values) in to_ramp is host code: for
\* sequences of different lengths it may raise or build a ramp
HostMayRefuse(preset_dict) ==
    ~(Len(preset_dict.basis) = Len(preset_dict.keys)
        /\ Len(preset_dict.keys) = Len(preset_dict.values))

\* set_ramp_parm_from_chosen_ramp_preset
SetRampParmFromChosenRampPreset(s, k, token) ==
    /\ pc[s] = "idle"
    /\ LET c0 == NewCall("apply", k, <<>>, token, 0)
       IN  IF ReadRaises(s, k)
           THEN Ends(s, c0, ReadError(k)) /\ UNCHANGED <<cache, parm>>
           ELSE LET preset_dict == ReadPresetFile(s, k)
                    c1 == [c0 EXCEPT !.pre = preset_dict]
                IN  /\ cache' = Cached(s, k, preset_dict)
                    /\ IF preset_dict.none
                       THEN Ends(s, c1, "AttributeError") /\ UNCHANGED parm
                       ELSE IF token \notin DictKeys(preset_dict.items)
                       THEN Ends(s, c1, "return") /\ UNCHANGED parm
                       ELSE \/ /\ Ends(s, c1, "ok")
                               /\ parm' = [parm EXCEPT ![s][k] =
                                      ToRamp(DictGet(preset_dict.items, token))]
                            \/ /\ HostMayRefuse(DictGet(preset_dict.items, token))
                               /\ Ends(s, c1, "OperationFailed")
                               /\ UNCHANGED parm
    /\ UNCHANGED <<file, live, faults>>

----------------------------------------------------------------------------
(* menu strip *)

\* the loop of create_menu_strip: for each key in order, the key, then the
\* preset's name
MenuItems(preset_dict) ==
    [i \in 1..(2 * Len(preset_dict)) |->
        IF i % 2 = 1
        THEN preset_dict[(i + 1) \div 2].key
        ELSE preset_dict[i \div 2].val.name]

\* create_menu_strip: kwargs["parms"] holds nparms parameters, the first of
\* kind k
CreateMenuStrip(s, k, nparms) ==
    /\ pc[s] = "idle"
    /\ LET c0 == NewCall("strip", k, <<>>, <<>>, nparms)
       IN  IF nparms # 1
           THEN Ends(s, c0, "ok") /\ UNCHANGED cache
           ELSE IF ReadRaises(s, k)
           THEN Ends(s, c0, ReadError(k)) /\ UNCHANGED cache
           ELSE LET preset_dict == ReadPresetFile(s, k)
                    c1 == [c0 EXCEPT !.pre = preset_dict]
                IN  /\ cache' = Cached(s, k, preset_dict)
                    /\ IF preset_dict.none
                       THEN Ends(s, c1, "TypeError")
                       ELSE Ends(s, [c1 EXCEPT !.items =
                                        MenuItems(preset_dict.items)], "ok")
    /\ UNCHANGED <<file, parm, live, faults>>

----------------------------------------------------------------------------
(* _safe_save_preset_file(preset_file_path, presets_data), step by step    *)

\* mutant: the text is written straight into the store file
SafeSaveDumpSomeInPlace(s, n) ==
    /\ pc[s] = "write"
    /\ temp[s].st = "empty"
    /\ ~call[s].data.none
    /\ n < Len(call[s].data.items)
    /\ file' = [file EXCEPT ![call[s].kind] = JsonDumpPrefix(call[s].data, n)]
    /\ UNCHANGED <<temp, cache, parm, pc, call, live, faults>>

\* json.dump has written the opening brace and the first n items
SafeSaveDumpSome(s, n) ==
    /\ pc[s] = "write"
    /\ temp[s].st = "empty"
    /\ ~call[s].data.none
    /\ n < Len(call[s].data.items)
    /\ temp' = [temp EXCEPT ![s] = JsonDumpPrefix(call[s].data, n)]
    /\ UNCHANGED <<file, cache, parm, pc, call, live, faults>>

\* json.dump returns and the with block closes the file
SafeSaveDumpAll(s) ==
    /\ pc[s] = "write"
    /\ temp' = [temp EXCEPT ![s] = JsonDump(call[s].data)]
    /\ pc' = [pc EXCEPT ![s] = "replace"]
    /\ UNCHANGED <<file, cache, parm, call, live, faults>>

\* mutant: the entries of the store file that the saved mapping lacks are
\* merged into it
SafeSaveReplaceMerging(s) ==
    /\ pc[s] = "replace"
    /\ file' = [file EXCEPT ![call[s].kind] =
                   [temp[s] EXCEPT !.items =
                       temp[s].items \o
                       SelectSeq(file[call[s].kind].items,
                                 LAMBDA e : e.key \notin DictKeys(temp[s].items))]]
    /\ temp' = [temp EXCEPT ![s] = Absent]
    /\ pc' = [pc EXCEPT ![s] = "clear"]
    /\ UNCHANGED <<cache, parm, call, live, faults>>

\* mutant: the path is always that of float.json
SafeSaveReplaceFloatPath(s) ==
    /\ pc[s] = "replace"
    /\ file' = [file EXCEPT !["float"] = temp[s]]
    /\ temp' = [temp EXCEPT ![s] = Absent]
    /\ pc' = [pc EXCEPT ![s] = "clear"]
    /\ UNCHANGED <<cache, parm, call, live, faults>>

\* os.replace(temp_preset_file_path, preset_file_path)
SafeSaveReplace(s) ==
    /\ pc[s] = "replace"
    /\ file' = [file EXCEPT ![call[s].kind] = temp[s]]
    /\ temp' = [temp EXCEPT ![s] = Absent]
    /\ pc' = [pc EXCEPT ![s] = "clear"]
    /\ UNCHANGED <<cache, parm, call, live, faults>>

\* mutant: the cache is left as it is
SafeSaveNoCacheClear(s) ==
    /\ pc[s] = "clear"
    /\ Returns(s, call[s], "ok")
    /\ UNCHANGED <<file, temp, cache, parm, live, faults>>

\* _read_preset_file.cache_clear(), then the callback returns
SafeSaveCacheClear(s) ==
    /\ pc[s] = "clear"
    /\ cache' = [cache EXCEPT ![s] = [k \in Kinds |-> Uncached]]
    /\ Returns(s, call[s], "ok")
    /\ UNCHANGED <<file, temp, parm, live, faults>>

\* open, write or os.replace raises OSError: the exception leaves the
\* callback and the cache is not cleared (a failing open leaves the same
\* state as a failing first write).  The temporary file is left behind
\* under its random name and never opened again; it is dropped from the state.
SafeSaveIOError(s) ==
    /\ pc[s] \in {"write", "replace"}
    /\ faults < MaxFaults
    /\ faults' = faults + 1
    /\ temp' = [temp EXCEPT ![s] = Absent]
    /\ Returns(s, call[s], "IOError")
    /\ UNCHANGED <<file, cache, parm, live>>

\* the process is killed during the save and the host is started again:
\* the new process has an empty cache
Kill(s) ==
    /\ pc[s] \in {"write", "replace", "clear"}
    /\ faults < MaxFaults
    /\ faults' = faults + 1
    /\ temp' = [temp EXCEPT ![s] = Absent]
    /\ cache' = [cache EXCEPT ![s] = [k \in Kinds |-> Uncached]]
    /\ Returns(s, call[s], "killed")
    /\ UNCHANGED <<file, parm, live>>

----------------------------------------------------------------------------
MaxRows == Cardinality(Tokens)

\* kwargs["parms"][0]: a ramp parameter of the session's scene
ParmKinds(s) == DOMAIN parm[s]

Add ==
    \E s \in live, choice \in {-1, 0}, name \in Names :
        \E k \in ParmKinds(s) : AddRampPresetMenuCallback(s, k, choice, name)

Replace ==
    \E s \in live, sel \in 0..MaxRows :
        \E k \in ParmKinds(s) : ReplacePreset(s, k, sel)

Remove ==
    \E s \in live, sel \in 0..MaxRows :
        \E k \in ParmKinds(s) : RemovePreset(s, k, sel)

Rename ==
    \E s \in live, exec \in ExecResults, idx \in 0..MaxRows,
       new_menu_name \in Names :
        \E k \in ParmKinds(s) :
            RenamePresetMenuCallback(s, k, exec, idx, new_menu_name)

Apply ==
    \E s \in live, token \in Tokens :
        \E k \in ParmKinds(s) : SetRampParmFromChosenRampPreset(s, k, token)

\* the host builds the menu for no, one or two selected parameters
MenuStrip ==
    \E s \in live, nparms \in 0..2 :
        \E k \in ParmKinds(s) : CreateMenuStrip(s, k, nparms)

SaveDumpSome == \E s \in live, n \in 0..MaxRows : SafeSaveDumpSome(s, n)

SaveDumpAll == \E s \in live : SafeSaveDumpAll(s)

SaveReplace == \E s \in live : SafeSaveReplace(s)

SaveCacheClear == \E s \in live : SafeSaveCacheClear(s)

SaveIOError == \E s \in live : SafeSaveIOError(s)

Killed == \E s \in live : Kill(s)

Next ==
    \/ Add
    \/ Replace
    \/ Remove
    \/ Rename
    \/ Apply
    \/ MenuStrip
    \/ SaveDumpSome
    \/ SaveDumpAll
    \/ SaveReplace
    \/ SaveCacheClear
    \/ SaveIOError
    \/ Killed

Spec == Init /\ [][Next]_vars

----------------------------------------------------------------------------
(* Notions the properties are stated in *)

\* the callback of s reached _safe_save_preset_file
EnteredSave(c) ==
    /\ c.op \in {"add", "replace", "remove", "rename"}
    /\ c.result \in {"running", "ok", "IOError", "killed"}

\* two preset dicts carry the same ramp definition: basis, keys and values,
\* item by item, whether held in tuples, lists or JSON arrays
SameDefinition(p, q) ==
    /\ p.basis = q.basis
    /\ p.keys = q.keys
    /\ p.values = q.values

SamePreset(p, q) ==
    /\ SameDefinition(p, q)
    /\ p.name = q.name
    /\ p.ramp_type = q.ramp_type

\* every item of before, except those under the keys in except, is in after
\* under its key with the same preset
OthersKept(before, after, except) ==
    \A i \in DOMAIN before :
        before[i].key \notin except =>
            /\ before[i].key \in DictKeys(after)
            /\ SamePreset(DictGet(after, before[i].key), before[i].val)

----------------------------------------------------------------------------
(* Properties *)

\* the store file is whole, and a save that has not renamed yet, or that
\* ended in an I/O error, has left it as it was when the callback began
C1_State ==
    \A s \in live :
        LET c == call[s]
        IN  /\ \A k \in Kinds : file[k].st \in {"absent", "object", "null"}
            /\ pc[s] \in {"write", "replace"} => file[c.kind] = c.file0
            /\ c.result = "IOError" => file[c.kind] = c.file0
            /\ EnteredSave(c) => file[c.kind] \in {c.file0, JsonDump(c.data)}

\* a save that ends before os.replace (killed, or an I/O error) ends with
\* the store file as it was when the callback began
C1_Step ==
    \A s \in live :
        (pc[s] \in {"write", "replace"} /\ pc'[s] = "idle")
            => file'[call[s].kind] = call[s].file0

\* C1: a safe_save interrupted at any step before the rename (process
\* killed, I/O error while writing the temporary file) leaves the store file
\* with exactly the content it had before the save began, and at every
\* instant the store file holds the complete old or the complete new
\* content, never a partial write.
C1_InterruptedSaveKeepsStoreFile == [](C1_State) /\ [][C1_Step]_vars

\* a save of a changed mapping was interrupted and the store file is the old one
C1_Witness ==
    \E s \in live :
        /\ call[s].result \in {"IOError", "killed"}
        /\ file[call[s].kind] = call[s].file0
        /\ JsonDump(call[s].data) # call[s].file0

\* C2: when add is given a name whose normalized key is already in the
\* store (a first add under a name with the same key succeeded), it fails
\* with DuplicateName, the store file is not written, and a following load
\* still shows the store as it was, the first preset under that key.
C2_DuplicateAddFails ==
    \A s \in live :
        LET c == call[s]
        IN  (c.op = "add" /\ ~c.pre.none /\ c.key \in DictKeys(c.pre.items))
                => /\ c.result = "DuplicateName"
                   /\ pc[s] = "idle"
                   /\ file[c.kind] = c.file0
                   /\ ReadPresetFile(s, c.kind) = c.pre

\* the second name differs from the stored one and has the same key
C2_Witness ==
    \E s \in live :
        LET c == call[s]
        IN  /\ c.result = "DuplicateName"
            /\ c.key # <<>>
            /\ DictGet(c.pre.items, c.key).name # c.name
            /\ Normalize(DictGet(c.pre.items, c.key).name) = Normalize(c.name)

\* C3: add of a name whose key is not in the store, followed by load,
\* returns a mapping that holds under normalize(name) the basis, keys and
\* values supplied (the parameter's ramp), and every entry the store held
\* before the add, unchanged.
C3_AddThenLoadRoundTrips ==
    \A s \in live :
        LET c == call[s]
            post == ReadPresetFile(s, c.kind)
        IN  (c.op = "add" /\ c.result = "ok")
                => /\ ~ReadRaises(s, c.kind)
                   /\ ~post.none
                   /\ c.key = Normalize(c.name)
                   /\ c.key \notin DictKeys(c.pre.items)
                   /\ c.key \in DictKeys(post.items)
                   /\ SameDefinition(DictGet(post.items, c.key),
                                     parm[s][c.kind])
                   /\ DictKeys(post.items) = DictKeys(c.pre.items) \cup {c.key}
                   /\ OthersKept(c.pre.items, post.items, {})

\* an add into a store that already held a preset succeeded
C3_Witness ==
    \E s \in live :
        /\ call[s].op = "add"
        /\ call[s].result = "ok"
        /\ Len(call[s].pre.items) >= 1
        /\ call[s].key \in DictKeys(ReadPresetFile(s, call[s].kind).items)

\* C4: after a successful mutation (add, replace, remove or rename, ending
\* in safe_save) the read cache of that store is invalidated, and the next
\* load returns exactly the mapping that was written to the file.
C4_SaveInvalidatesCache ==
    \A s \in live :
        LET c == call[s]
        IN  (c.op \in {"add", "replace", "remove", "rename"} /\ c.result = "ok")
                => /\ ~cache[s][c.kind].cached
                   /\ file[c.kind] = JsonDump(c.data)
                   /\ ReadPresetFile(s, c.kind) = JsonLoad(JsonDump(c.data))

\* a remove was saved: the next load differs from the mapping loaded before
C4_Witness ==
    \E s \in live :
        /\ call[s].op = "remove"
        /\ call[s].result = "ok"
        /\ ~cache[s][call[s].kind].cached
        /\ ReadPresetFile(s, call[s].kind) # call[s].pre

\* C5: when the store file of a kind does not exist, load(kind) creates the
\* presets directory and the store file holding an empty object and returns
\* an empty mapping, without raising an error.
C5_LoadCreatesMissingStore ==
    \A s \in live :
        LET c == call[s]
        IN  (c.op \in {"replace", "remove", "rename", "apply"}
                /\ c.file0.st = "absent")
                => /\ c.result # "FileNotFoundError"
                   /\ file[c.kind].st # "absent"
                   /\ c.pre = PyDict(<<>>)

\* C6: for every preset the user selects in remove (any key of the store,
\* whatever its value), remove followed by load shows that key absent and
\* every other entry present and unchanged.
C6_RemoveDeletesSelected ==
    \A s \in live :
        LET c == call[s]
            post == ReadPresetFile(s, c.kind)
        IN  (c.op = "remove" /\ c.sel >= 1 /\ c.result \in {"ok", "return"})
                => /\ c.key \notin DictKeys(post.items)
                   /\ OthersKept(c.pre.items, post.items, {c.key})

\* C7: for every preset the user selects in replace (any key of the store),
\* after replace the entry at that key keeps its stored display name and
\* carries the basis, keys and values of the parameter's current ramp; the
\* set of keys and every other entry are unchanged.
C7_ReplaceOverwritesSelected ==
    \A s \in live :
        LET c == call[s]
            post == ReadPresetFile(s, c.kind)
        IN  (c.op = "replace" /\ c.sel >= 1 /\ c.result \in {"ok", "return"})
                => /\ c.key \in DictKeys(post.items)
                   /\ DictGet(post.items, c.key).name
                          = DictGet(c.pre.items, c.key).name
                   /\ SameDefinition(DictGet(post.items, c.key),
                                     parm[s][c.kind])
                   /\ DictKeys(post.items) = DictKeys(c.pre.items)
                   /\ OthersKept(c.pre.items, post.items, {c.key})

\* C8: for an existing key old and a new name whose key new_key is not held
\* by a different entry (new_key may be old), after rename the store holds
\* under new_key a preset named by the new name with the basis, keys, values
\* and ramp type of the preset formerly at old; old is absent when it is not
\* new_key; every other entry and the number of entries are unchanged.
C8_RenameMovesPreset ==
    \A s \in live :
        LET c == call[s]
            post == ReadPresetFile(s, c.kind)
            new_key == Normalize(c.name)
        IN  (/\ c.op = "rename"
             /\ c.result = "ok"
             /\ c.sel >= 1
             /\ (new_key \notin DictKeys(c.pre.items) \/ new_key = c.key))
                => /\ ~post.none
                   /\ c.key \in DictKeys(c.pre.items)
                   /\ new_key \in DictKeys(post.items)
                   /\ DictGet(post.items, new_key).name = c.name
                   /\ SameDefinition(DictGet(post.items, new_key),
                                     DictGet(c.pre.items, c.key))
                   /\ DictGet(post.items, new_key).ramp_type
                          = DictGet(c.pre.items, c.key).ramp_type
                   /\ (c.key # new_key => c.key \notin DictKeys(post.items))
                   /\ OthersKept(c.pre.items, post.items, {c.key})
                   /\ Len(post.items) = Len(c.pre.items)

\* a preset was renamed to a fresh key in a store holding another preset
C8_Witness ==
    \E s \in live :
        LET c == call[s]
        IN  /\ c.op = "rename"
            /\ c.result = "ok"
            /\ c.sel >= 1
            /\ Len(c.pre.items) >= 2
            /\ Normalize(c.name) \notin DictKeys(c.pre.items)
            /\ Normalize(c.name) \in DictKeys(ReadPresetFile(s, c.kind).items)

\* C9: a rename whose old identifier is not a key of the store (the dialog
\* is confirmed on an empty store, nothing selected) returns the absence
\* sentinel and mutates nothing: the store file holds the same mapping as
\* before and a following load returns that mapping.
C9_RenameOfMissingMutatesNothing ==
    \A s \in live :
        LET c == call[s]
        IN  (c.op = "rename" /\ EnteredSave(c) /\ c.sel = 0)
                => /\ c.data.none
                   /\ file[c.kind] = c.file0
                   /\ (pc[s] = "idle" => ReadPresetFile(s, c.kind) = c.pre)

\* C10: a rename whose new name normalizes to the key of a different
\* existing preset raises no error and overwrites that preset: afterwards
\* the colliding key holds the renamed preset's definition under the new
\* name, the old key is absent and the store has one entry fewer.
C10_RenameCollisionOverwrites ==
    \A s \in live :
        LET c == call[s]
            post == ReadPresetFile(s, c.kind)
            new_key == Normalize(c.name)
        IN  (/\ c.op = "rename"
             /\ c.sel >= 1
             /\ new_key \in DictKeys(c.pre.items)
             /\ new_key # c.key)
                => /\ EnteredSave(c)
                   /\ ~c.data.none
                   /\ c.result = "ok" =>
                        /\ ~post.none
                        /\ new_key \in DictKeys(post.items)
                        /\ DictGet(post.items, new_key).name = c.name
                        /\ SameDefinition(DictGet(post.items, new_key),
                                          DictGet(c.pre.items, c.key))
                        /\ c.key \notin DictKeys(post.items)
                        /\ Len(post.items) = Len(c.pre.items) - 1
                        /\ OthersKept(c.pre.items, post.items,
                                      {c.key, new_key})

\* a rename onto the key of another preset was saved
C10_Witness ==
    \E s \in live :
        LET c == call[s]
        IN  /\ c.op = "rename"
            /\ c.result = "ok"
            /\ c.sel >= 1
            /\ Normalize(c.name) \in DictKeys(c.pre.items)
            /\ Normalize(c.name) # c.key
            /\ ~SameDefinition(DictGet(c.pre.items, Normalize(c.name)),
                               DictGet(c.pre.items, c.key))

----------------------------------------------------------------------------
(* Cancelled prompts *)

\* the prompt of the callback was shown and the callback ended at it: the
\* input dialog of add was dismissed, nothing was selected in the list of
\* replace or remove, or the rename dialog did not hand back a result
Cancelled(c) ==
    \/ c.op = "add" /\ c.result = "cancel"
    \/ c.op \in {"replace", "remove"} /\ ~c.pre.none /\ c.sel = 0
    \/ c.op = "rename" /\ ~c.pre.none /\ ~EnteredSave(c)

\* a cancelled callback ended without an error
C11_State ==
    \A s \in live :
        Cancelled(call[s]) => call[s].result \in {"cancel", "return"}

\* the step of a cancelled callback changes neither the store files, nor the
\* value a load returns, nor the ramp parameters
C11_Step ==
    \A s \in live :
        (pc[s] = "idle" /\ pc'[s] = "idle" /\ Cancelled(call'[s]))
            => /\ file' = file
               /\ parm' = parm
               /\ \A k \in Kinds :
                      ~ReadRaises(s, k)
                          => ReadPresetFile(s, k)' = ReadPresetFile(s, k)

\* C11: when the user cancels the prompt of add, replace, remove or rename
\* (input dialog dismissed, nothing selected in the list, rename dialog
\* rejected), the operation returns without error and changes nothing: the
\* store file, the mapping the next load returns and the ramp parameter are
\* what they were before the operation.
C11_CancelChangesNothing == [](C11_State) /\ [][C11_Step]_vars

\* the same without the rename dialog: add, replace and remove only
CancelOfListPromptsChangesNothing ==
    /\ [](\A s \in live :
              (Cancelled(call[s]) /\ call[s].op # "rename")
                  => call[s].result \in {"cancel", "return"})
    /\ [][C11_Step]_vars

----------------------------------------------------------------------------
(* Two sessions on the same presets directory *)

\* two host processes, each with its own cache and a float ramp parameter;
\* the stores are empty
InitTwoSessions ==
    /\ live = {1, 2}
    /\ file = [k \in Kinds |-> JsonDump(PyDict(<<>>))]
    /\ temp = [s \in AllSessions |-> Absent]
    /\ cache = [s \in AllSessions |-> [k \in Kinds |-> Uncached]]
    /\ parm = [s \in AllSessions |-> [k \in {"float"} |-> Ramp1(k)]]
    /\ pc = [s \in AllSessions |-> "idle"]
    /\ call = [s \in AllSessions |-> NoCall]
    /\ faults = 0

\* the users of the two sessions add and remove presets
NextTwoSessions ==
    \/ Add
    \/ Remove
    \/ SaveDumpSome
    \/ SaveDumpAll
    \/ SaveReplace
    \/ SaveCacheClear

SpecTwoSessions == InitTwoSessions /\ [][NextTwoSessions]_vars

\* every store file is whole
C12_State == \A k \in Kinds : file[k].st \in {"absent", "object", "null"}

\* a store file changes only in the os.replace of one session, and then it
\* holds exactly the mapping that session saved, whatever it held before
C12_Step ==
    \A k \in Kinds :
        file'[k] # file[k]
            => \E s \in live :
                   /\ pc[s] = "replace"
                   /\ pc'[s] = "clear"
                   /\ call[s].kind = k
                   /\ file'[k] = JsonDump(call[s].data)

\* C12: with two sessions mutating the same store file without locking, in
\* every interleaving the file at each instant holds a complete mapping
\* written by one of the sessions (or the initial one), and each os.replace
\* leaves exactly the mapping its session saved: the last writer wins with
\* no merge, an entry of the other session can be lost, no conflict is
\* reported.
C12_LastWriterWins == [](C12_State) /\ [][C12_Step]_vars

\* both sessions added a preset and both adds ended well, yet the store
\* file holds only one of the two presets
C12_Witness ==
    /\ call[1].op = "add" /\ call[1].result = "ok"
    /\ call[2].op = "add" /\ call[2].result = "ok"
    /\ call[1].key # call[2].key
    /\ call[1].kind = call[2].kind
    /\ Len(call[1].pre.items) = Len(call[2].pre.items)
    /\ file[call[1].kind].st = "object"
    /\ \E s \in live : call[s].key \notin DictKeys(file[call[s].kind].items)

----------------------------------------------------------------------------
(* Repeated loads *)

\* the callback called _read_preset_file and the call returned
Loaded(c) ==
    /\ c.op # "none"
    /\ ~(c.op = "add" /\ c.result = "cancel")
    /\ ~(c.op = "strip" /\ c.sel # 1)
    /\ c.result \notin {"FileNotFoundError", "JSONDecodeError"}

\* the callback ended in a completed save, or the process was started anew
SavedOrRestarted(c) ==
    \/ EnteredSave(c) /\ c.result = "ok"
    \/ c.result = "killed"

\* s begins a callback that loads the kind its previous callback loaded
LoadsAgain(s) ==
    /\ pc[s] = "idle"
    /\ call'[s] # call[s]
    /\ Loaded(call[s])
    /\ Loaded(call'[s])
    /\ call'[s].kind = call[s].kind

\* C13: between two loads of the same kind in one session with no successful
\* save by that session in between, the second load returns the same mapping
\* as the first (no disk read), even when another process has rewritten the
\* file in the meantime.
C13_RepeatedLoadReturnsSameMapping ==
    [][\A s \in live :
           (LoadsAgain(s) /\ ~SavedOrRestarted(call[s]))
               => call'[s].pre = call[s].pre]_vars

\* the same for two loads with no save attempted in between
RepeatedLoadWithoutSaveReturnsSameMapping ==
    [][\A s \in live :
           (LoadsAgain(s) /\ ~EnteredSave(call[s]))
               => call'[s].pre = call[s].pre]_vars

\* a load returned the mapping of the load before it although the other
\* session had rewritten the file
StaleLoadWitness ==
    \E s \in live :
        /\ pc[s] = "idle"
        /\ Loaded(call[s])
        /\ cache[s][call[s].kind].cached
        /\ file[call[s].kind].st = "object"
        /\ call[s].pre # JsonLoad(file[call[s].kind])
        /\ call[s].pre = cache[s][call[s].kind].val

----------------------------------------------------------------------------
(* Presets of any shape: a store file written by hand or by another tool *)

SeqOfLen(n, x) == [i \in 1..n |-> x]

\* a JSON preset whose basis, keys and values have the given lengths
JsonPreset(k, nb, nk, nv) ==
    [name |-> SeedName, ramp_type |-> k, basis |-> SeqOfLen(nb, "Linear"),
     keys |-> SeqOfLen(nk, 0), values |-> SeqOfLen(nv, 1), seqs |-> "array"]

\* one session with a float ramp parameter; float.json holds one preset
\* whose three sequences have any lengths up to MaxKeys
InitAnyLengths ==
    /\ live = {1}
    /\ \E nb \in 0..MaxKeys, nk \in 0..MaxKeys, nv \in 0..MaxKeys :
           file = [k \in Kinds |->
                      [st |-> "object",
                       items |-> << [key |-> Normalize(SeedName),
                                     val |-> JsonPreset(k, nb, nk, nv)] >>]]
    /\ temp = [s \in AllSessions |-> Absent]
    /\ cache = [s \in AllSessions |-> [k \in Kinds |-> Uncached]]
    /\ parm = [s \in AllSessions |-> [k \in {"float"} |-> Ramp1(k)]]
    /\ pc = [s \in AllSessions |-> "idle"]
    /\ call = [s \in AllSessions |-> NoCall]
    /\ faults = 0

\* the user applies the preset, adds and replaces presets
NextAnyLengths ==
    \/ Apply
    \/ Add
    \/ Replace
    \/ SaveDumpSome
    \/ SaveDumpAll
    \/ SaveReplace
    \/ SaveCacheClear

SpecAnyLengths == InitAnyLengths /\ [][NextAnyLengths]_vars

EqualLengths(p) == Len(p.basis) = Len(p.keys) /\ Len(p.keys) = Len(p.values)

\* C14: the length invariant len(basis) == len(keys) == len(values) is
\* enforced: building a RampPreset (directly, by from_dict or by from_ramp)
\* from sequences whose lengths are not all equal is rejected with an error
\* (ValueError), so no such preset is built, applied to a parameter or stored
\* by this program.
C14_LengthInvariantEnforced ==
    \A s \in live :
        LET c == call[s]
        IN  /\ (/\ c.op = "apply"
                /\ ~c.pre.none
                /\ c.key \in DictKeys(c.pre.items)
                /\ ~EqualLengths(DictGet(c.pre.items, c.key)))
                   => c.result = "ValueError"
            /\ \A k \in DOMAIN parm[s] : EqualLengths(parm[s][k])
            /\ (c.op \in {"add", "replace"} /\ EnteredSave(c) /\ ~c.data.none)
                   => EqualLengths(DictGet(c.data.items, c.key))

----------------------------------------------------------------------------
(* Names typed freely *)

\* an upper-case and a lower-case letter, a punctuation mark, a digit
Alphabet == {"A", "a", "!", "1"}

\* every text of at most MaxLen characters
TypedNames == UNION {[1..n -> Alphabet] : n \in 0..MaxLen}

\* one session with a float ramp parameter; the stores hold one preset
InitTypedNames ==
    /\ live = {1}
    /\ file = [k \in Kinds |-> SeedStore(k)]
    /\ temp = [s \in AllSessions |-> Absent]
    /\ cache = [s \in AllSessions |-> [k \in Kinds |-> Uncached]]
    /\ parm = [s \in AllSessions |-> [k \in {"float"} |-> Ramp1(k)]]
    /\ pc = [s \in AllSessions |-> "idle"]
    /\ call = [s \in AllSessions |-> NoCall]
    /\ faults = 0

\* the user renames the preset to any text and confirms the dialog
RenameTyped ==
    \E s \in live, idx \in 0..MaxRows, new_menu_name \in TypedNames :
        \E k \in ParmKinds(s) :
            RenamePresetMenuCallback(s, k, "true", idx, new_menu_name)

NextTypedNames ==
    \/ RenameTyped
    \/ SaveDumpSome
    \/ SaveDumpAll
    \/ SaveReplace
    \/ SaveCacheClear

SpecTypedNames == InitTypedNames /\ [][NextTypedNames]_vars

\* C15: key normalization (lower-case the name, then keep only alphanumeric
\* characters) is idempotent: for every name x over the alphabet,
\* normalize(normalize(x)) = normalize(x); so every key the program stores
\* is its own normal form.
C15_NormalizeIdempotent ==
    /\ \A s \in live :
           call[s].op = "rename"
               => Normalize(Normalize(call[s].name)) = Normalize(call[s].name)
    /\ \A k \in Kinds :
           \A i \in DOMAIN file[k].items :
               Normalize(file[k].items[i].key) = file[k].items[i].key

\* a name with an upper-case letter and a punctuation mark was normalized
\* and its key is in the store file
C15_Witness ==
    \E s \in live :
        LET c == call[s]
        IN  /\ c.op = "rename"
            /\ c.result = "ok"
            /\ \E i, j \in DOMAIN c.name : c.name[i] = "A" /\ c.name[j] = "!"
            /\ Normalize(c.name) = <<"a">>
            /\ Normalize(c.name) \in DictKeys(file[c.kind].items)

----------------------------------------------------------------------------
(* A scene with a float ramp parameter and a color ramp parameter *)

InitTwoKinds ==
    /\ live = {1}
    /\ file = [k \in Kinds |-> SeedStore(k)]
    /\ temp = [s \in AllSessions |-> Absent]
    /\ cache = [s \in AllSessions |-> [k \in Kinds |-> Uncached]]
    /\ parm = [s \in AllSessions |-> [k \in Kinds |-> Ramp1(k)]]
    /\ pc = [s \in AllSessions |-> "idle"]
    /\ call = [s \in AllSessions |-> NoCall]
    /\ faults = 0

\* the one name the user types in this scene
NamesTwoKinds == {<<"A">>}

AddTwoKinds ==
    \E s \in live, name \in NamesTwoKinds :
        \E k \in ParmKinds(s) : AddRampPresetMenuCallback(s, k, 0, name)

RenameTwoKinds ==
    \E s \in live, idx \in 0..MaxRows, new_menu_name \in NamesTwoKinds :
        \E k \in ParmKinds(s) :
            RenamePresetMenuCallback(s, k, "true", idx, new_menu_name)

NextTwoKinds ==
    \/ AddTwoKinds
    \/ Replace
    \/ Remove
    \/ RenameTwoKinds
    \/ Apply
    \/ MenuStrip
    \/ SaveDumpAll
    \/ SaveReplace
    \/ SaveCacheClear

SpecTwoKinds == InitTwoKinds /\ [][NextTwoKinds]_vars

\* the kind of the parameter the callback of this step was invoked on
StepKind(s) == IF pc[s] = "idle" THEN call'[s].kind ELSE call[s].kind

\* C16: there is one store per ramp kind: every operation (add, replace,
\* remove, rename, apply, menu strip) invoked on a color ramp parameter reads
\* and writes only color.json, and on a float ramp parameter only float.json;
\* the store file of the other kind is unchanged by every step of it.
C16_OneStorePerKind ==
    [][\A s \in live :
           /\ \A j \in Kinds \ {StepKind(s)} : file'[j] = file[j]
           /\ (pc[s] = "idle" /\ call'[s] # call[s] /\ Loaded(call'[s]))
                  => call'[s].pre = ReadPresetFile(s, call'[s].kind)]_vars

\* a save on one kind changed that kind's store file while the other file is
\* still as the earlier session left it
C16_Witness ==
    \E s \in live :
        LET c == call[s]
        IN  /\ EnteredSave(c)
            /\ c.result = "ok"
            /\ c.kind = "color"
            /\ file["color"] # SeedStore("color")
            /\ file["float"] = SeedStore("float")

----------------------------------------------------------------------------
(* Cache and file *)

\* two loaded values hold the same presets under the same keys in the same
\* order, whether their sequences are tuples or lists
SameMapping(a, b) ==
    /\ a.none = b.none
    /\ Len(a.items) = Len(b.items)
    /\ \A i \in DOMAIN a.items :
           /\ a.items[i].key = b.items[i].key
           /\ SamePreset(a.items[i].val, b.items[i].val)

\* C17: in a single session, after any sequence of add, replace, remove and
\* rename, including ones whose save fails with an I/O error before the
\* rename, the mapping load(kind) returns equals the content of the store
\* file: a failed save never leaves the read cache holding an entry,
\* deletion or rename that the file does not have.
C17_LoadEqualsFile ==
    \A s \in live :
        \A k \in Kinds :
            (pc[s] = "idle" /\ ~ReadRaises(s, k))
                => SameMapping(ReadPresetFile(s, k), JsonLoad(file[k]))

----------------------------------------------------------------------------
(* Keys and display names *)

\* C18: in every reachable state of a store built by add, replace, remove
\* and rename with arbitrary names (the empty name and names without an
\* alphanumeric character included), each entry's key equals normalize of
\* that entry's stored display name.
C18_KeyIsNormalizedName ==
    \A k \in Kinds :
        \A i \in DOMAIN file[k].items :
            file[k].items[i].key = Normalize(file[k].items[i].val.name)

\* the same, but for presets added without a name, which are stored under
\* the empty key and named after the parameter
KeyIsNormalizedNameUnlessUnnamed ==
    \A k \in Kinds :
        \A i \in DOMAIN file[k].items :
            \/ file[k].items[i].key = Normalize(file[k].items[i].val.name)
            \/ /\ file[k].items[i].key = <<>>
               /\ file[k].items[i].val.name = ParmName

----------------------------------------------------------------------------
(* apply *)

\* s runs set_ramp_parm_from_chosen_ramp_preset in this step
ApplyStep(s) ==
    /\ pc[s] = "idle"
    /\ pc'[s] = "idle"
    /\ call'[s].op = "apply"
    /\ call'[s] # call[s]

\* C19: applying a preset never changes the store: when the selected token
\* is a key of the store the parameter is set to the ramp built from that
\* entry's basis, keys and values, and when the token is not a key the
\* parameter is left unchanged; in both cases the store file and the mapping
\* a load returns are unchanged.  In particular add from a parameter followed
\* by apply of the new key onto that parameter leaves the parameter's ramp
\* equal to what it was at the add.
C19_ApplyNeverChangesStore ==
    [][\A s \in live, k \in Kinds :
           (ApplyStep(s) /\ call'[s].kind = k) =>
               LET c == call'[s]
               IN  /\ file' = file
                   /\ ~ReadRaises(s, k)
                          => /\ ReadPresetFile(s, k)' = ReadPresetFile(s, k)
                             /\ c.pre = ReadPresetFile(s, k)
                   /\ (Loaded(c) /\ ~c.pre.none
                          /\ c.key \in DictKeys(c.pre.items))
                          => /\ c.result = "ok"
                             /\ SameDefinition(parm'[s][k],
                                    DictGet(c.pre.items, c.key))
                   /\ ~(Loaded(c) /\ ~c.pre.none
                          /\ c.key \in DictKeys(c.pre.items))
                          => parm' = parm
                   /\ (call[s].op = "add" /\ call[s].result = "ok"
                          /\ call[s].kind = k /\ call[s].key = c.key)
                          => /\ c.result = "ok"
                             /\ parm'[s][k] = parm[s][k]]_vars

\* a preset was applied that changed the parameter's ramp, and the store
\* file is as it was before
C19_Witness ==
    \E s \in live :
        LET c == call[s]
        IN  /\ c.op = "apply"
            /\ c.result = "ok"
            /\ parm[s][c.kind] = Ramp2(c.kind)
            /\ SameDefinition(parm[s][c.kind], DictGet(c.pre.items, c.key))
            /\ file[c.kind] = c.file0

----------------------------------------------------------------------------
(* menu strip *)

\* the strip lists the presets of the mapping in order, each key followed by
\* its own display name
IsStripOf(items, preset_dict) ==
    /\ Len(items) = 2 * Len(preset_dict)
    /\ \A i \in DOMAIN preset_dict :
           /\ items[2 * i - 1] = preset_dict[i].key
           /\ items[2 * i] = preset_dict[i].val.name

\* the store of kind k as the specification defines it: the mapping in the
\* file, the empty mapping when there is no file
StoreOf(k) == IF file[k].st = "absent" THEN <<>> ELSE file[k].items

C20_State ==
    \A s \in live :
        LET c == call[s]
        IN  c.op = "strip"
                => /\ c.result = "ok"
                   /\ c.sel # 1 => c.items = <<>>
                   /\ c.sel = 1 => IsStripOf(c.items, StoreOf(c.kind))

\* building the strip changes neither the store files nor what a load returns
C20_Step ==
    \A s \in live, k \in Kinds :
        (pc[s] = "idle" /\ pc'[s] = "idle" /\ call'[s].op = "strip")
            => /\ file' = file
               /\ ~ReadRaises(s, k)
                      => ReadPresetFile(s, k)' = ReadPresetFile(s, k)

\* C20: for a context with exactly one selected parameter the menu strip is
\* the flat sequence key1, name1, key2, name2, ... of all presets of that
\* parameter's kind in store order (twice as long as the store, each key
\* followed by its own display name); for no or several selected parameters
\* it is empty; building it never modifies the store.
C20_MenuStripListsStore == [](C20_State) /\ [][C20_Step]_vars

\* the same for the strips that create_menu_strip returned: the presets of
\* the mapping it loaded
ReturnedMenuStripListsStore ==
    /\ [](\A s \in live :
              LET c == call[s]
              IN  (c.op = "strip" /\ c.result = "ok")
                      => /\ c.sel # 1 => c.items = <<>>
                         /\ c.sel = 1 =>
                                /\ ~c.pre.none
                                /\ IsStripOf(c.items, c.pre.items)
                                /\ c.pre = ReadPresetFile(s, c.kind))
    /\ [][C20_Step]_vars

\* a strip of two presets was returned
MenuStripWitness ==
    \E s \in live :
        /\ call[s].op = "strip"
        /\ call[s].result = "ok"
        /\ Len(call[s].items) = 4
        /\ call[s].items[1] # call[s].items[3]

====
